---------------------------- MODULE Spec2Model ----------------------------
(***************************************************************************)
(* Model of the authentication and model-persistence backend:              *)
(*   src/database.py                   Database (SQLite users/models)      *)
(*   src/controller/auth_controller.py AuthController (in-memory sessions) *)
(*   src/routes/auth_routes.py         the HTTP route handlers             *)
(* One action per route handler; each action performs the whole handler,   *)
(* the controller and database calls it makes included.                    *)
(*                                                                         *)
(* Encodings.  A Python Optional is a sequence of length at most one:      *)
(* None is << >>, a value x is <<x>>.  A float (theta, metric) is an       *)
(* integer count of 1/10000 units, so that the ".4f" formatting of the     *)
(* equation is computed, not assumed.  A missing or empty cookie is ""     *)
(* (the handlers test "if not session_id", which treats both alike).       *)
(***************************************************************************)
EXTENDS Integers, Sequences, FiniteSets, TLC

VARIABLES
    users,            \* rows of table users
    models,           \* rows of table models
    models_seq,       \* sqlite_sequence of models: largest id ever given (AUTOINCREMENT)
    active_sessions,  \* AuthController.active_sessions: session id -> record
    issued,           \* the values uuid.uuid4() has returned so far
    leaked,           \* a connection left open by create_user's except branch still
                      \* holds its INSERT transaction (the write lock)
    now,              \* CURRENT_TIMESTAMP, in seconds
    req,              \* the request handled last
    resp,             \* the response returned for it
    threads           \* the requests being handled on threads of their own:
                      \* thread -> its request, its position in the handler
                      \* and, once it has returned, its response

vars == <<users, models, models_seq, active_sessions, issued, leaked, now, req, resp, threads>>

-----------------------------------------------------------------------------
(* Bounds of the model *)

\* how many values uuid4 may hand out
MaxIssued == 2
\* how many ids the models table may hand out
MaxModelId == 2
\* how far the clock advances
MaxTime == 1

-----------------------------------------------------------------------------
(* Inputs the requests are drawn from *)

None == << >>
Some(x) == <<x>>

Usernames == {"al", "alice", "bob"}
Passwords == {"12345", "secret1", "secret2"}
Emails == {None, Some("a@x.com")}
ModelNames == {"m1", "m2"}
\* the sign-up forms (username, password) of the two accounts of Spec
Accounts == {<<"alice", "secret1">>, <<"bob", "secret2">>}

\* the pool uuid4 draws from
Uuid(i) == "uuid-" \o ToString(i)
Uuids == {Uuid(i) : i \in 1..MaxIssued}
\* what a client may send as the session_id cookie: nothing, or any identifier
Cookies == {""} \cup Uuids

\* the form fields of /save-model other than model_name: those of test_save_model
TestModelData ==
    [theta_0 |-> 15000, theta_1 |-> 23000, rmse |-> 1230, mae |-> 980, r2_score |-> 8920,
     sklearn_rmse |-> Some(1200), sklearn_mae |-> Some(950), sklearn_r2 |-> Some(8950)]

\* and a form with other values and without the optional reference metrics
ModelData == {
    TestModelData,
    [theta_0 |-> 5000, theta_1 |-> 12345, rmse |-> 2000, mae |-> 1500, r2_score |-> 8000,
     sklearn_rmse |-> None, sklearn_mae |-> None, sklearn_r2 |-> None] }

\* the ids a client may ask for
ModelIds == 1..MaxModelId

-----------------------------------------------------------------------------
(* Database: src/database.py *)

\* hashlib.sha256(password.encode()).hexdigest()
hash_password(password) ==
    CASE password = "12345"   -> "5994471abb01112afcc18159f6cc74b4f511b99806da59b3caf5a9c173cacfc5"
      [] password = "secret1" -> "5b11618c2e44027877d0cd0921ed166b9f176f50587fc91e7534dd2946db77d6"
      [] password = "secret2" -> "35224d0d3465d74e855f8d69a136e79c744ea35a675d3393360a327cbf6359a2"

\* mutant: any password is accepted
verify_password_any(password, password_hash) == TRUE

verify_password(password, password_hash) == hash_password(password) = password_hash

\* AUTOINCREMENT on users: rows are never deleted and a failed INSERT takes no id
NextUserId == Cardinality(users) + 1

\* mutant: only the username is UNIQUE
UsersConflict_username_only(username, email) ==
    \E u \in users : u.username = username

\* the UNIQUE constraints of table users; NULL emails never collide
UsersConflict(username, email) ==
    \/ \E u \in users : u.username = username
    \/ email # None /\ \E u \in users : u.email = email

\* mutant: INSERT OR REPLACE INTO users
create_user_or_replace(username, password, email) ==
    IF leaked
    THEN [result |-> "OperationalError", users |-> users, leaked |-> TRUE]
    ELSE [result |-> "True",
          users |-> {u \in users : u.username # username /\ (email = None \/ u.email # email)}
                        \cup {[id |-> NextUserId, username |-> username,
                                password_hash |-> hash_password(password),
                                email |-> email, created_at |-> now]},
          leaked |-> FALSE]

\* create_user: "True", "False" (IntegrityError caught) or "OperationalError"
\* (database is locked: not caught, it propagates to the caller).
\* The except branch returns without conn.close(): the connection keeps the
\* INSERT's transaction open, and with it SQLite's write lock, until the
\* interpreter finalises the connection object (Collect).  While it is held
\* every INSERT or DELETE of another connection fails with "database is
\* locked" before any constraint is looked at; SELECTs are not affected.
create_user(username, password, email) ==
    IF leaked
    THEN [result |-> "OperationalError", users |-> users, leaked |-> TRUE]
    ELSE IF UsersConflict(username, email)
    THEN [result |-> "False", users |-> users, leaked |-> TRUE]
    ELSE [result |-> "True",
          users |-> users \cup {[id |-> NextUserId, username |-> username,
                                 password_hash |-> hash_password(password),
                                 email |-> email, created_at |-> now]},
          leaked |-> FALSE]

\* authenticate_user on table U: Some(id) or None
authenticate_user_in(U, username, password) ==
    IF \E u \in U : u.username = username /\ verify_password(password, u.password_hash)
    THEN Some((CHOOSE u \in U : u.username = username).id)
    ELSE None

authenticate_user(username, password) == authenticate_user_in(users, username, password)

\* mutant: SELECT * (the row with its password_hash)
get_user_by_id_in_all_columns(U, user_id) ==
    IF \E u \in U : u.id = user_id
    THEN Some(CHOOSE u \in U : u.id = user_id)
    ELSE None

\* get_user_by_id on table U: Some(public row) or None; the hash is not selected
get_user_by_id_in(U, user_id) ==
    IF \E u \in U : u.id = user_id
    THEN LET u == CHOOSE u \in U : u.id = user_id
         IN  Some([id |-> u.id, username |-> u.username, email |-> u.email,
                   created_at |-> u.created_at])
    ELSE None

get_user_by_id(user_id) == get_user_by_id_in(users, user_id)

\* ".4f" of a value held in 1/10000 units
Pad4(n) ==
    IF n < 10 THEN "000" \o ToString(n)
    ELSE IF n < 100 THEN "00" \o ToString(n)
    ELSE IF n < 1000 THEN "0" \o ToString(n)
    ELSE ToString(n)

Format4f(v) ==
    LET a == IF v < 0 THEN -v ELSE v
    IN  (IF v < 0 THEN "-" ELSE "") \o ToString(a \div 10000) \o "." \o Pad4(a % 10000)

\* f"y = {theta_1:.4f}x + {theta_0:.4f}"
Equation(model_data) ==
    "y = " \o Format4f(model_data.theta_1) \o "x + " \o Format4f(model_data.theta_0)

\* mutant: an update in place, the row that collides keeps its id
NewModelRow_keeps_id(user_id, model_name, model_data) ==
    LET old == {m \in models : m.user_id = user_id /\ m.model_name = model_name}
    IN  [id |-> IF old = {} THEN models_seq + 1 ELSE (CHOOSE m \in old : TRUE).id,
         user_id |-> user_id, model_name |-> model_name,
         theta_0 |-> model_data.theta_0, theta_1 |-> model_data.theta_1,
         rmse |-> model_data.rmse, mae |-> model_data.mae,
         r2_score |-> model_data.r2_score,
         sklearn_rmse |-> model_data.sklearn_rmse, sklearn_mae |-> model_data.sklearn_mae,
         sklearn_r2 |-> model_data.sklearn_r2,
         equation |-> Equation(model_data), created_at |-> now]

\* the row INSERT OR REPLACE writes: a fresh AUTOINCREMENT id, the nine values
\* given, the equation, and created_at by its DEFAULT CURRENT_TIMESTAMP
NewModelRow(user_id, model_name, model_data) ==
    [id |-> models_seq + 1, user_id |-> user_id, model_name |-> model_name,
     theta_0 |-> model_data.theta_0, theta_1 |-> model_data.theta_1,
     rmse |-> model_data.rmse, mae |-> model_data.mae, r2_score |-> model_data.r2_score,
     sklearn_rmse |-> model_data.sklearn_rmse, sklearn_mae |-> model_data.sklearn_mae,
     sklearn_r2 |-> model_data.sklearn_r2,
     equation |-> Equation(model_data), created_at |-> now]

\* mutant: a plain INSERT into a table without the UNIQUE constraint
Replaced_none(user_id, model_name) == {}

\* mutant: UNIQUE(model_name), whoever the owner is
Replaced_by_name(user_id, model_name) ==
    {m \in models : m.model_name = model_name}

\* the rows INSERT OR REPLACE removes: those that collide on UNIQUE(user_id, model_name)
Replaced(user_id, model_name) ==
    {m \in models : m.user_id = user_id /\ m.model_name = model_name}

\* save_model: an exception (database is locked) is caught and gives False
save_model(user_id, model_name, model_data) ==
    IF leaked
    THEN [result |-> FALSE, models |-> models, models_seq |-> models_seq]
    ELSE [result |-> TRUE,
          models |-> (models \ Replaced(user_id, model_name))
                        \cup {NewModelRow(user_id, model_name, model_data)},
          models_seq |-> models_seq + 1]

\* the columns the two SELECTs on models return (user_id is not among them)
ModelDict(m) ==
    [id |-> m.id, model_name |-> m.model_name, theta_0 |-> m.theta_0,
     theta_1 |-> m.theta_1, rmse |-> m.rmse, mae |-> m.mae, r2_score |-> m.r2_score,
     sklearn_rmse |-> m.sklearn_rmse, sklearn_mae |-> m.sklearn_mae,
     sklearn_r2 |-> m.sklearn_r2, equation |-> m.equation, created_at |-> m.created_at]

\* WHERE user_id = ?
ModelsOf(user_id) == {m \in models : m.user_id = user_id}

\* get_user_models: every list ORDER BY created_at DESC allows; rows of equal
\* created_at come in an order SQL leaves open
get_user_models(user_id) ==
    LET rows == ModelsOf(user_id)
        n == Cardinality(rows)
    IN  { [i \in 1..n |-> ModelDict(f[i])] :
            f \in { g \in [1..n -> rows] :
                      /\ \A i, j \in 1..n : i # j => g[i] # g[j]
                      /\ \A i, j \in 1..n : i < j => g[i].created_at >= g[j].created_at } }

\* mutant: WHERE id = ?
get_model_by_id_any_owner(model_id, user_id) ==
    IF \E m \in models : m.id = model_id
    THEN Some(ModelDict(CHOOSE m \in models : m.id = model_id))
    ELSE None

\* get_model_by_id: WHERE id = ? AND user_id = ?
get_model_by_id(model_id, user_id) ==
    IF \E m \in models : m.id = model_id /\ m.user_id = user_id
    THEN Some(ModelDict(CHOOSE m \in models : m.id = model_id /\ m.user_id = user_id))
    ELSE None

\* delete_model: DELETE ... WHERE id = ? AND user_id = ?; rowcount > 0;
\* an exception (database is locked) is caught and gives False
delete_model(model_id, user_id) ==
    IF leaked
    THEN [result |-> FALSE, models |-> models]
    ELSE [result |-> \E m \in models : m.id = model_id /\ m.user_id = user_id,
          models |-> {m \in models : ~(m.id = model_id /\ m.user_id = user_id)}]

-----------------------------------------------------------------------------
(* AuthController: src/controller/auth_controller.py *)

\* mutant: an identifier is only new among the sessions that are active now
uuid4_among_active == Uuids \ DOMAIN active_sessions

\* what uuid.uuid4() may return: any identifier it has not returned before
uuid4 == Uuids \ issued

\* mutant: the record holds the id after the user's
create_session_other_id(session_id, user_id, username) ==
    [s \in DOMAIN active_sessions \cup {session_id} |->
        IF s = session_id
        THEN [user_id |-> user_id + 1, username |-> username, created_at |-> "2024-01-01"]
        ELSE active_sessions[s]]

\* mutant: a user has one session at a time, the newest
create_session_single(session_id, user_id, username) ==
    [s \in {t \in DOMAIN active_sessions : active_sessions[t].user_id # user_id}
              \cup {session_id} |->
        IF s = session_id
        THEN [user_id |-> user_id, username |-> username, created_at |-> "2024-01-01"]
        ELSE active_sessions[s]]

\* create_session: the session map with session_id bound to the new record
create_session(session_id, user_id, username) ==
    [s \in DOMAIN active_sessions \cup {session_id} |->
        IF s = session_id
        THEN [user_id |-> user_id, username |-> username, created_at |-> "2024-01-01"]
        ELSE active_sessions[s]]

\* get_session: Some(record) or None
get_session(session_id) ==
    IF session_id \in DOMAIN active_sessions THEN Some(active_sessions[session_id]) ELSE None

\* mutant: the entry is kept
delete_session_keeps(session_id) == active_sessions

\* mutant: every session of the same user is removed
delete_session_of_user(session_id) ==
    [s \in {t \in DOMAIN active_sessions :
              session_id \in DOMAIN active_sessions =>
                  active_sessions[t].user_id # active_sessions[session_id].user_id} |->
        active_sessions[s]]

\* delete_session: the session map without session_id
delete_session(session_id) ==
    [s \in DOMAIN active_sessions \ {session_id} |-> active_sessions[s]]

\* mutant: without a session the first user is taken
get_current_user_default(session_id) ==
    IF session_id \in DOMAIN active_sessions
    THEN get_user_by_id(active_sessions[session_id].user_id)
    ELSE get_user_by_id(1)

\* get_current_user: Some(user) or None
get_current_user(session_id) ==
    IF get_session(session_id) # None
    THEN get_user_by_id(get_session(session_id)[1].user_id)
    ELSE None

is_authenticated(session_id) == session_id \in DOMAIN active_sessions

\* the "user" object signup and signin return
PublicUser(user) == [id |-> user.id, username |-> user.username, email |-> user.email]

\* the HTTPException a controller method raises, as the handlers answer it
HttpError(status_code, detail) ==
    [status |-> status_code, body |-> [success |-> FALSE, detail |-> detail]]

\* an exception that is no HTTPException: the handler does not catch it
ServerError == [status |-> 500, body |-> [success |-> FALSE, detail |-> "Internal Server Error"]]

\* mutant: the lengths are not looked at before create_user is called
signup_unvalidated(username, password, email) ==
    LET r == create_user(username, password, email)
    IN  IF r.result = "OperationalError"
        THEN [resp |-> ServerError, users |-> r.users, leaked |-> r.leaked]
        ELSE IF r.result = "False"
        THEN [resp |-> HttpError(400, "Username already exists"),
              users |-> r.users, leaked |-> r.leaked]
        ELSE LET user == get_user_by_id_in(r.users,
                            authenticate_user_in(r.users, username, password)[1])[1]
             IN  [resp |-> [status |-> 201,
                            body |-> [success |-> TRUE,
                                      message |-> "User created successfully",
                                      user |-> PublicUser(user)]],
                  users |-> r.users, leaked |-> r.leaked]

\* AuthController.signup: the response, and the users table and the lock it leaves
signup(username, password, email) ==
    IF Len(username) < 3
    THEN [resp |-> HttpError(400, "Username must be at least 3 characters"),
          users |-> users, leaked |-> leaked]
    ELSE IF Len(password) < 6
    THEN [resp |-> HttpError(400, "Password must be at least 6 characters"),
          users |-> users, leaked |-> leaked]
    ELSE LET r == create_user(username, password, email)
         IN  IF r.result = "OperationalError"
             THEN [resp |-> ServerError, users |-> r.users, leaked |-> r.leaked]
             ELSE IF r.result = "False"
             THEN [resp |-> HttpError(400, "Username already exists"),
                   users |-> r.users, leaked |-> r.leaked]
             ELSE LET user == get_user_by_id_in(r.users,
                                 authenticate_user_in(r.users, username, password)[1])[1]
                  IN  [resp |-> [status |-> 201,
                                 body |-> [success |-> TRUE,
                                           message |-> "User created successfully",
                                           user |-> PublicUser(user)]],
                       users |-> r.users, leaked |-> r.leaked]

\* AuthController.signin: the response and the session map it leaves;
\* new_id is the value uuid4 returns if a session is created
signin(username, password, new_id) ==
    LET user_id == authenticate_user(username, password)
    IN  IF user_id = None
        THEN [resp |-> HttpError(401, "Invalid username or password"),
              active_sessions |-> active_sessions, created |-> FALSE]
        ELSE LET user == get_user_by_id(user_id[1])[1]
             IN  [resp |-> [status |-> 200,
                            body |-> [success |-> TRUE, message |-> "Sign in successful",
                                      session_id |-> new_id, user |-> PublicUser(user)],
                            set_cookie |-> new_id],
                  active_sessions |-> create_session(new_id, user_id[1], user.username),
                  created |-> TRUE]

\* mutant: success is reported whether or not the session was there
signout_reports_success(session_id) ==
    [result |-> [success |-> TRUE, message |-> "Sign out successful"],
     active_sessions |-> delete_session(session_id)]

\* AuthController.signout: the result and the session map it leaves
signout(session_id) ==
    IF session_id \in DOMAIN active_sessions
    THEN [result |-> [success |-> TRUE, message |-> "Sign out successful"],
          active_sessions |-> delete_session(session_id)]
    ELSE [result |-> [success |-> FALSE, message |-> "Session not found"],
          active_sessions |-> active_sessions]

-----------------------------------------------------------------------------
(* Route handlers: src/routes/auth_routes.py *)

AuthRequired == [status |-> 401, body |-> [success |-> FALSE, detail |-> "Authentication required"]]
InvalidSession == [status |-> 401, body |-> [success |-> FALSE, detail |-> "Invalid session"]]

\* POST /signup
PostSignup(username, password, email) ==
    LET r == signup(username, password, email)
    IN  /\ users' = r.users
        /\ leaked' = r.leaked
        /\ req' = [op |-> "signup", username |-> username, password |-> password,
                   email |-> email]
        /\ resp' = r.resp
        /\ UNCHANGED <<models, models_seq, active_sessions, issued, now, threads>>

\* POST /signin
PostSignin(username, password) ==
    /\ \E new_id \in (IF authenticate_user(username, password) = None THEN {""} ELSE uuid4) :
         LET r == signin(username, password, new_id)
         IN  /\ active_sessions' = r.active_sessions
             /\ issued' = IF r.created THEN issued \cup {new_id} ELSE issued
             /\ resp' = r.resp
    /\ req' = [op |-> "signin", username |-> username, password |-> password]
    /\ UNCHANGED <<users, models, models_seq, leaked, now, threads>>

\* POST /signout
PostSignout(session_id) ==
    /\ IF session_id = ""
       THEN /\ resp' = [status |-> 400, body |-> [success |-> FALSE, detail |-> "No active session"]]
            /\ UNCHANGED active_sessions
       ELSE LET r == signout(session_id)
            IN  /\ resp' = [status |-> 200, body |-> r.result, delete_cookie |-> TRUE]
                /\ active_sessions' = r.active_sessions
    /\ req' = [op |-> "signout", session_id |-> session_id]
    /\ UNCHANGED <<users, models, models_seq, issued, leaked, now, threads>>

\* GET /me
GetMe(session_id) ==
    /\ resp' = IF session_id = "" \/ get_current_user(session_id) = None
               THEN [status |-> 200, body |-> [authenticated |-> FALSE]]
               ELSE [status |-> 200,
                     body |-> [authenticated |-> TRUE,
                               user |-> PublicUser(get_current_user(session_id)[1])]]
    /\ req' = [op |-> "me", session_id |-> session_id]
    /\ UNCHANGED <<users, models, models_seq, active_sessions, issued, leaked, now, threads>>

\* POST /save-model
PostSaveModel(session_id, model_name, model_data) ==
    LET user == get_current_user(session_id)
    IN  /\ IF session_id = ""
           THEN resp' = AuthRequired /\ UNCHANGED <<models, models_seq>>
           ELSE IF user = None
           THEN resp' = InvalidSession /\ UNCHANGED <<models, models_seq>>
           ELSE LET r == save_model(user[1].id, model_name, model_data)
                IN  /\ r.models_seq <= MaxModelId
                    /\ models' = r.models
                    /\ models_seq' = r.models_seq
                    /\ resp' = IF r.result
                               THEN [status |-> 200,
                                     body |-> [success |-> TRUE,
                                               message |-> "Model saved successfully"]]
                               ELSE [status |-> 500,
                                     body |-> [success |-> FALSE,
                                               detail |-> "Failed to save model"]]
        /\ req' = [op |-> "save_model", session_id |-> session_id,
                   model_name |-> model_name, model_data |-> model_data]
        /\ UNCHANGED <<users, active_sessions, issued, leaked, now, threads>>

\* GET /models
GetUserModels(session_id) ==
    LET user == get_current_user(session_id)
    IN  /\ IF session_id = ""
           THEN resp' = AuthRequired
           ELSE IF user = None
           THEN resp' = InvalidSession
           ELSE \E lst \in get_user_models(user[1].id) :
                    resp' = [status |-> 200, body |-> [success |-> TRUE, models |-> lst]]
        /\ req' = [op |-> "get_user_models", session_id |-> session_id]
        /\ UNCHANGED <<users, models, models_seq, active_sessions, issued, leaked, now, threads>>

\* GET /models/{model_id}: the response
get_model(session_id, model_id) ==
    LET user == get_current_user(session_id)
    IN  IF session_id = ""
        THEN AuthRequired
        ELSE IF user = None
        THEN InvalidSession
        ELSE LET model == get_model_by_id(model_id, user[1].id)
             IN  IF model = None
                 THEN [status |-> 404,
                       body |-> [success |-> FALSE, detail |-> "Model not found"]]
                 ELSE [status |-> 200, body |-> [success |-> TRUE, model |-> model[1]]]

GetModel(session_id, model_id) ==
    /\ resp' = get_model(session_id, model_id)
    /\ req' = [op |-> "get_model", session_id |-> session_id, model_id |-> model_id]
    /\ UNCHANGED <<users, models, models_seq, active_sessions, issued, leaked, now, threads>>

\* DELETE /models/{model_id}: the response and the models table it leaves
route_delete_model(session_id, model_id) ==
    LET user == get_current_user(session_id)
    IN  IF session_id = "" \/ user = None
        THEN [resp |-> AuthRequired, models |-> models]
        ELSE LET r == delete_model(model_id, user[1].id)
             IN  [resp |-> IF r.result
                           THEN [status |-> 200,
                                 body |-> [success |-> TRUE,
                                           message |-> "Model deleted successfully"]]
                           ELSE [status |-> 404,
                                 body |-> [success |-> FALSE,
                                           detail |-> "Model not found or deletion failed"]],
                  models |-> r.models]

DeleteModel(session_id, model_id) ==
    /\ resp' = route_delete_model(session_id, model_id).resp
    /\ models' = route_delete_model(session_id, model_id).models
    /\ req' = [op |-> "delete_model", session_id |-> session_id, model_id |-> model_id]
    /\ UNCHANGED <<users, models_seq, active_sessions, issued, leaked, now, threads>>

-----------------------------------------------------------------------------
(* Environment *)

\* a second passes (a step of the specifications that tell apart the
\* created_at of two rows)
Tick ==
    /\ now < MaxTime
    /\ now' = now + 1
    /\ UNCHANGED <<users, models, models_seq, active_sessions, issued, leaked, req, resp, threads>>

\* the interpreter finalises the connection create_user left open, which
\* rolls its transaction back and releases the lock
Collect ==
    /\ leaked
    /\ leaked' = FALSE
    /\ UNCHANGED <<users, models, models_seq, active_sessions, issued, now, req, resp, threads>>

-----------------------------------------------------------------------------
(* The system *)

\* a fresh database file and a fresh AuthController
Init ==
    /\ users = {}
    /\ models = {}
    /\ models_seq = 0
    /\ active_sessions = << >>
    /\ issued = {}
    /\ leaked = FALSE
    /\ now = 0
    /\ req = [op |-> "none"]
    /\ resp = [status |-> 0]
    /\ threads = << >>

\* The service with every handler and two accounts saving one model form
\* under one name.  (The credential checks are explored in full by SpecAuth,
\* saves of several forms under several names by SpecModels.)
Next ==
    \/ \E account \in Accounts : PostSignup(account[1], account[2], None)
    \/ \E account \in Accounts : PostSignin(account[1], account[2])
    \/ \E session_id \in Cookies : PostSignout(session_id)
    \/ \E session_id \in Cookies : GetMe(session_id)
    \/ \E session_id \in Cookies : PostSaveModel(session_id, "m1", TestModelData)
    \/ \E session_id \in Cookies : GetUserModels(session_id)
    \/ \E session_id \in Cookies, model_id \in ModelIds : GetModel(session_id, model_id)
    \/ \E session_id \in Cookies, model_id \in ModelIds : DeleteModel(session_id, model_id)
    \/ Collect

Spec == Init /\ [][Next]_vars

\* The account and session handlers, with every combination of the sign-up
\* and sign-in inputs.
NextAuth ==
    \/ \E username \in Usernames, password \in Passwords, email \in Emails :
           PostSignup(username, password, email)
    \/ \E username \in Usernames, password \in Passwords : PostSignin(username, password)
    \/ \E session_id \in Cookies : PostSignout(session_id)
    \/ \E session_id \in Cookies : GetMe(session_id)
    \/ Collect

SpecAuth == Init /\ [][NextAuth]_vars

\* The service with every handler and one account saving under every model name.
NextModels ==
    \/ PostSignup("alice", "secret1", None)
    \/ PostSignin("alice", "secret1")
    \/ \E session_id \in Cookies : PostSignout(session_id)
    \/ \E session_id \in Cookies : GetMe(session_id)
    \/ \E session_id \in Cookies, model_name \in ModelNames, model_data \in ModelData :
           PostSaveModel(session_id, model_name, model_data)
    \/ \E session_id \in Cookies : GetUserModels(session_id)
    \/ \E session_id \in Cookies, model_id \in ModelIds : GetModel(session_id, model_id)
    \/ \E session_id \in Cookies, model_id \in ModelIds : DeleteModel(session_id, model_id)
    \/ Collect

SpecModels == Init /\ [][NextModels]_vars

\* One account saving under every model name while the clock advances: saves
\* fall into the same second or into different ones.
NextTime ==
    \/ PostSignup("alice", "secret1", None)
    \/ PostSignin("alice", "secret1")
    \/ \E session_id \in Cookies, model_name \in ModelNames :
           PostSaveModel(session_id, model_name, TestModelData)
    \/ \E session_id \in Cookies : GetUserModels(session_id)
    \/ Tick
    \/ Collect

SpecTime == Init /\ [][NextTime]_vars

-----------------------------------------------------------------------------
(* Two requests handled at the same time, each on a thread of its own.  A    *)
(* thread takes the steps of its handler one at a time; the steps of the two *)
(* threads interleave in every order.                                        *)

Threads == {"t1", "t2"}

\* the record of thread t with the fields of r replaced
Goto(t, r) ==
    [o \in DOMAIN threads |->
        IF o = t THEN [f \in DOMAIN threads[o] \cup DOMAIN r |->
                          IF f \in DOMAIN r THEN r[f] ELSE threads[o][f]]
        ELSE threads[o]]

\* thread t is at position pc of the handler of op
At(t, op, pc) == t \in DOMAIN threads /\ threads[t].op = op /\ threads[t].pc = pc

\* another connection holds a write transaction: the one create_user left
\* open, or the one of a thread between its INSERT and its commit
WriteLocked(t) ==
    leaked \/ \E o \in DOMAIN threads \ {t} : threads[o].op = "signup" /\ threads[o].pc = "commit"

\* two POST /signup requests with the same username arrive together
DispatchSignups(username, password1, password2) ==
    /\ threads = << >>
    /\ threads' = [t \in Threads |->
                     [op |-> "signup", pc |-> "validate", username |-> username,
                      password |-> IF t = "t1" THEN password1 ELSE password2,
                      email |-> None, row |-> None, user_id |-> None,
                      resp |-> [status |-> 0]]]
    /\ UNCHANGED <<users, models, models_seq, active_sessions, issued, leaked, now, req, resp>>

\* AuthController.signup, the two length tests
SignupValidate(t) ==
    /\ At(t, "signup", "validate")
    /\ threads' =
         IF Len(threads[t].username) < 3
         THEN Goto(t, [pc |-> "done",
                       resp |-> HttpError(400, "Username must be at least 3 characters")])
         ELSE IF Len(threads[t].password) < 6
         THEN Goto(t, [pc |-> "done",
                       resp |-> HttpError(400, "Password must be at least 6 characters")])
         ELSE Goto(t, [pc |-> "insert"])
    /\ UNCHANGED <<users, models, models_seq, active_sessions, issued, leaked, now, req, resp>>

\* create_user, cursor.execute(INSERT) with the write lock free: the row is
\* written into the thread's own transaction, or the UNIQUE constraints refuse
\* it (IntegrityError: create_user returns False with its connection open,
\* signup raises 400)
CreateUserInsert(t) ==
    /\ At(t, "signup", "insert")
    /\ ~WriteLocked(t)
    /\ IF UsersConflict(threads[t].username, threads[t].email)
       THEN /\ leaked' = TRUE
            /\ threads' = Goto(t, [pc |-> "done",
                                   resp |-> HttpError(400, "Username already exists")])
       ELSE /\ leaked' = leaked
            /\ threads' = Goto(t, [pc |-> "commit",
                                   row |-> Some([id |-> NextUserId,
                                                 username |-> threads[t].username,
                                                 password_hash |-> hash_password(threads[t].password),
                                                 email |-> threads[t].email,
                                                 created_at |-> now])])
    /\ UNCHANGED <<users, models, models_seq, active_sessions, issued, now, req, resp>>

\* create_user, cursor.execute(INSERT) with the write lock held for the whole
\* of the connection's timeout (sqlite3.connect's default, 5 s):
\* OperationalError, which neither create_user nor signup nor the route catches
CreateUserLocked(t) ==
    /\ At(t, "signup", "insert")
    /\ WriteLocked(t)
    /\ threads' = Goto(t, [pc |-> "done", resp |-> ServerError])
    /\ UNCHANGED <<users, models, models_seq, active_sessions, issued, leaked, now, req, resp>>

\* create_user, conn.commit() and conn.close(): the row is in the table and
\* the lock is free
CreateUserCommit(t) ==
    /\ At(t, "signup", "commit")
    /\ users' = users \cup {threads[t].row[1]}
    /\ threads' = Goto(t, [pc |-> "authenticate"])
    /\ UNCHANGED <<models, models_seq, active_sessions, issued, leaked, now, req, resp>>

\* signup, db.authenticate_user(username, password)
SignupAuthenticate(t) ==
    /\ At(t, "signup", "authenticate")
    /\ threads' = Goto(t, [pc |-> "get_user",
                           user_id |-> authenticate_user(threads[t].username,
                                                         threads[t].password)])
    /\ UNCHANGED <<users, models, models_seq, active_sessions, issued, leaked, now, req, resp>>

\* signup, db.get_user_by_id(...) and the result returned (201)
SignupGetUser(t) ==
    /\ At(t, "signup", "get_user")
    /\ threads[t].user_id # None
    /\ threads' = Goto(t, [pc |-> "done",
                           resp |-> [status |-> 201,
                                     body |-> [success |-> TRUE,
                                               message |-> "User created successfully",
                                               user |-> PublicUser(
                                                   get_user_by_id(threads[t].user_id[1])[1])]]])
    /\ UNCHANGED <<users, models, models_seq, active_sessions, issued, leaked, now, req, resp>>

\* Sign-ups one after the other, then two sign-ups for one free username at
\* the same time.
NextSignupRace ==
    \/ threads = << >> /\ PostSignup("alice", "secret1", None)
    \/ \E password1, password2 \in {"secret1", "secret2"} :
           DispatchSignups("bob", password1, password2)
    \/ \E t \in Threads : SignupValidate(t)
    \/ \E t \in Threads : CreateUserInsert(t)
    \/ \E t \in Threads : CreateUserLocked(t)
    \/ \E t \in Threads : CreateUserCommit(t)
    \/ \E t \in Threads : SignupAuthenticate(t)
    \/ \E t \in Threads : SignupGetUser(t)
    \/ Collect

SpecSignupRace == Init /\ [][NextSignupRace]_vars

\* two POST /signout requests with the cookie of one active session arrive
\* together
DispatchSignouts(session_id) ==
    /\ threads = << >>
    /\ session_id \in DOMAIN active_sessions
    /\ threads' = [t \in Threads |->
                     [op |-> "signout", pc |-> "signout_test", session_id |-> session_id,
                      resp |-> [status |-> 0]]]
    /\ UNCHANGED <<users, models, models_seq, active_sessions, issued, leaked, now, req, resp>>

\* AuthController.signout, "if session_id in self.active_sessions:" and, when
\* it is not, the result returned
SignoutTest(t) ==
    /\ At(t, "signout", "signout_test")
    /\ threads' =
         IF threads[t].session_id \in DOMAIN active_sessions
         THEN Goto(t, [pc |-> "delete_test"])
         ELSE Goto(t, [pc |-> "done",
                       resp |-> [status |-> 200,
                                 body |-> [success |-> FALSE,
                                           message |-> "Session not found"],
                                 delete_cookie |-> TRUE]])
    /\ UNCHANGED <<users, models, models_seq, active_sessions, issued, leaked, now, req, resp>>

\* AuthController.delete_session, "if session_id in self.active_sessions:"
DeleteSessionTest(t) ==
    /\ At(t, "signout", "delete_test")
    /\ threads' = IF threads[t].session_id \in DOMAIN active_sessions
                  THEN Goto(t, [pc |-> "del"])
                  ELSE Goto(t, [pc |-> "return"])
    /\ UNCHANGED <<users, models, models_seq, active_sessions, issued, leaked, now, req, resp>>

\* AuthController.delete_session, "del self.active_sessions[session_id]": a
\* KeyError when the key is not there, which nothing catches
DeleteSessionDel(t) ==
    /\ At(t, "signout", "del")
    /\ IF threads[t].session_id \in DOMAIN active_sessions
       THEN /\ active_sessions' = delete_session(threads[t].session_id)
            /\ threads' = Goto(t, [pc |-> "return"])
       ELSE /\ active_sessions' = active_sessions
            /\ threads' = Goto(t, [pc |-> "done", resp |-> ServerError])
    /\ UNCHANGED <<users, models, models_seq, issued, leaked, now, req, resp>>

\* AuthController.signout, the result returned after delete_session
SignoutReturn(t) ==
    /\ At(t, "signout", "return")
    /\ threads' = Goto(t, [pc |-> "done",
                           resp |-> [status |-> 200,
                                     body |-> [success |-> TRUE,
                                               message |-> "Sign out successful"],
                                     delete_cookie |-> TRUE]])
    /\ UNCHANGED <<users, models, models_seq, active_sessions, issued, leaked, now, req, resp>>

\* Sign-ups and sign-ins one after the other, then two sign-outs of one active
\* session at the same time.
NextSignoutRace ==
    \/ threads = << >> /\ \E account \in Accounts : PostSignup(account[1], account[2], None)
    \/ threads = << >> /\ \E account \in Accounts : PostSignin(account[1], account[2])
    \/ \E session_id \in Uuids : DispatchSignouts(session_id)
    \/ \E t \in Threads : SignoutTest(t)
    \/ \E t \in Threads : DeleteSessionTest(t)
    \/ \E t \in Threads : DeleteSessionDel(t)
    \/ \E t \in Threads : SignoutReturn(t)
    \/ Collect

SpecSignoutRace == Init /\ [][NextSignoutRace]_vars

-----------------------------------------------------------------------------
(* Claims *)

\* C1: after signout(S), is_authenticated(S) is false and get_current_user(S)
\* is none, whatever requests came before the signout.
C1_SignedOutIsUnauthenticated ==
    req.op = "signout" =>
        /\ ~is_authenticated(req.session_id)
        /\ get_current_user(req.session_id) = None

\* a session that was active has been signed out, after a model was saved
C1_Witness ==
    /\ req.op = "signout"
    /\ req.session_id \in issued
    /\ resp.status = 200 /\ resp.body.success
    /\ models # {}

BadCredentials(username, password) ==
    \A u \in users : u.username = username => u.password_hash # hash_password(password)

\* C3: signin with an unknown username or a wrong password answers 401,
\* creates no session and changes neither the session map nor the users.
C3_BadSigninIsUnauthorized ==
    [][( /\ req'.op = "signin"
         /\ PostSignin(req'.username, req'.password)
         /\ BadCredentials(req'.username, req'.password) ) =>
            /\ resp'.status = 401
            /\ active_sessions' = active_sessions
            /\ issued' = issued
            /\ users' = users]_vars

\* a known user was refused for a wrong password while one of its sessions is active
C3_Witness ==
    /\ req.op = "signin" /\ resp.status = 401
    /\ \E u \in users : u.username = req.username
                        /\ u.password_hash # hash_password(req.password)
    /\ DOMAIN active_sessions # {}

\* session_id is an active session and model_id a model of another user
ForeignModel(session_id, model_id) ==
    /\ session_id \in DOMAIN active_sessions
    /\ \E m \in models : m.id = model_id /\ m.user_id # active_sessions[session_id].user_id

\* an id no model has or ever had
UnusedModelId == models_seq + 1

\* C4: get_model and delete_model on another user's model answer exactly as on
\* an id that matches no model (404, no field of the model), and the model stays.
C4_ForeignModelIsNotFound ==
    [][/\ ( /\ req'.op = "get_model"
            /\ ForeignModel(req'.session_id, req'.model_id)
            /\ GetModel(req'.session_id, req'.model_id) ) =>
               /\ resp' = get_model(req'.session_id, UnusedModelId)
               /\ resp'.status = 404
               /\ DOMAIN resp'.body = {"success", "detail"}
               /\ models' = models
       /\ ( /\ req'.op = "delete_model"
            /\ ForeignModel(req'.session_id, req'.model_id)
            /\ DeleteModel(req'.session_id, req'.model_id) ) =>
               /\ resp' = route_delete_model(req'.session_id, UnusedModelId).resp
               /\ resp'.status = 404
               /\ DOMAIN resp'.body = {"success", "detail"}
               /\ models' = models]_vars

\* a user asked to delete the other user's model, with the database unlocked
C4_Witness ==
    /\ req.op = "delete_model"
    /\ ForeignModel(req.session_id, req.model_id)
    /\ resp.status = 404
    /\ ~leaked

\* C5: a signup with a username of length >= 3 that no stored user has, a
\* password of length >= 6 and an e-mail that is absent or that no stored user
\* has answers 201 and stores a user of that name.  (The claim also covers an
\* e-mail another user already has; this statement leaves that case out.)
C5_ValidSignupSucceeds ==
    [][( /\ req'.op = "signup"
         /\ PostSignup(req'.username, req'.password, req'.email)
         /\ Len(req'.username) >= 3 /\ Len(req'.password) >= 6
         /\ \A u \in users : u.username # req'.username
         /\ req'.email = None \/ \A u \in users : u.email # req'.email ) =>
            /\ resp'.status = 201
            /\ \E u \in users' : u.username = req'.username /\ u.email = req'.email]_vars

\* C6: a signup with the username of a stored user answers 400, whatever the
\* password and e-mail, and leaves the users table unchanged.
C6_DuplicateUsernameIsClientError ==
    [][( /\ req'.op = "signup"
         /\ PostSignup(req'.username, req'.password, req'.email)
         /\ \E u \in users : u.username = req'.username ) =>
            /\ resp'.status = 400
            /\ users' = users]_vars

\* the user the last request's session belongs to
ReqUserId == active_sessions[req.session_id].user_id

\* C7: a model saved again under the same name is overwritten: no user ever
\* has two models of one name, and after a save the one entry of that name in
\* list_models has the coefficients and metrics of that save, the reference
\* metrics it left out being null.
C7_SaveOverwrites ==
    /\ \A m1, m2 \in models :
          (m1.user_id = m2.user_id /\ m1.model_name = m2.model_name) => m1 = m2
    /\ (req.op = "save_model" /\ resp.status = 200) =>
          \A lst \in get_user_models(ReqUserId) :
              /\ Cardinality({i \in 1..Len(lst) : lst[i].model_name = req.model_name}) = 1
              /\ \A i \in 1..Len(lst) :
                    lst[i].model_name = req.model_name =>
                        /\ lst[i].theta_0 = req.model_data.theta_0
                        /\ lst[i].theta_1 = req.model_data.theta_1
                        /\ lst[i].rmse = req.model_data.rmse
                        /\ lst[i].mae = req.model_data.mae
                        /\ lst[i].r2_score = req.model_data.r2_score
                        /\ lst[i].sklearn_rmse = req.model_data.sklearn_rmse
                        /\ lst[i].sklearn_mae = req.model_data.sklearn_mae
                        /\ lst[i].sklearn_r2 = req.model_data.sklearn_r2
                        /\ lst[i].equation = Equation(req.model_data)

\* the second save of the store went to the only model there is, without
\* reference metrics
C7_Witness ==
    /\ req.op = "save_model" /\ resp.status = 200
    /\ req.model_data.sklearn_rmse = None
    /\ models_seq = 2
    /\ \E m \in models : models = {m} /\ m.id = 2 /\ m.sklearn_rmse = None
                         /\ m.equation = "y = 1.2345x + 0.5000"

\* C8: save-model, list-models, get-model and delete-model answer 401 and leave
\* the models table unchanged when the request has no session identifier or one
\* that is not in the session map.
C8_ModelRoutesNeedSession ==
    [][( /\ req'.op \in {"save_model", "get_user_models", "get_model", "delete_model"}
         /\ ~is_authenticated(req'.session_id)
         /\ CASE req'.op = "save_model" ->
                     PostSaveModel(req'.session_id, req'.model_name, req'.model_data)
              [] req'.op = "get_user_models" -> GetUserModels(req'.session_id)
              [] req'.op = "get_model" -> GetModel(req'.session_id, req'.model_id)
              [] req'.op = "delete_model" -> DeleteModel(req'.session_id, req'.model_id) ) =>
            /\ resp'.status = 401
            /\ models' = models
            /\ models_seq' = models_seq]_vars

\* a delete was asked with a signed-out identifier while a model is stored
C8_Witness ==
    /\ req.op = "delete_model"
    /\ req.session_id \in issued \ DOMAIN active_sessions
    /\ resp.status = 401
    /\ \E m \in models : m.id = req.model_id

\* C9: an active session is removed only by a signout of that session, every
\* other step leaves its entry as it is, and save-model and list-models never
\* refuse (401) a session that is active.
C9_SessionEndsOnlyBySignout ==
    [][/\ \A s \in DOMAIN active_sessions :
             IF s \in DOMAIN active_sessions'
             THEN active_sessions'[s] = active_sessions[s]
             ELSE PostSignout(s)
       /\ ( /\ req'.op \in {"save_model", "get_user_models"}
            /\ is_authenticated(req'.session_id)
            /\ CASE req'.op = "save_model" ->
                        PostSaveModel(req'.session_id, req'.model_name, req'.model_data)
                 [] req'.op = "get_user_models" -> GetUserModels(req'.session_id) ) =>
               resp'.status # 401]_vars

\* one of two sessions of the same user was signed out and the other is active
C9_Witness ==
    /\ req.op = "signout" /\ resp.status = 200 /\ resp.body.success
    /\ Cardinality(users) = 1
    /\ DOMAIN active_sessions # {}
    /\ models # {}

\* C10: no two stored users share a username, no two share a non-null e-mail,
\* and any number of users may have no e-mail.
C10_UsersUnique ==
    \A u1, u2 \in users :
        u1 # u2 =>
            /\ u1.username # u2.username
            /\ u1.id # u2.id
            /\ (u1.email # None => u1.email # u2.email)

\* two users without e-mail are stored
C10_Witness ==
    \E u1, u2 \in users : u1 # u2 /\ u1.email = None /\ u2.email = None

\* C11: a signup whose username has fewer than 3 characters or whose password
\* has fewer than 6 answers 400 without going to the database: the users table
\* and the lock are as before, also when the username is free and also while
\* the database is locked; the username is looked at before the password.
C11_ShortSignupIsClientError ==
    [][( /\ req'.op = "signup"
         /\ PostSignup(req'.username, req'.password, req'.email)
         /\ Len(req'.username) < 3 \/ Len(req'.password) < 6 ) =>
            /\ resp'.status = 400
            /\ resp'.body.detail = IF Len(req'.username) < 3
                                   THEN "Username must be at least 3 characters"
                                   ELSE "Password must be at least 6 characters"
            /\ users' = users
            /\ leaked' = leaked]_vars

\* a free username that is too short came with a password that is too short
\* while the database was locked
C11_Witness ==
    /\ req.op = "signup" /\ resp.status = 400
    /\ Len(req.username) < 3 /\ Len(req.password) < 6
    /\ resp.body.detail = "Username must be at least 3 characters"
    /\ \A u \in users : u.username # req.username
    /\ users # {}
    /\ leaked

\* the fields of a user record that may be shown
PublicFields == {"id", "username", "email"}

\* C12: what signup, signin and /me answer holds of a user exactly id,
\* username and email, and what get_current_user returns exactly these and
\* created_at, with the values of the stored record; the password hash is in
\* none of them, whatever requests came before.
C12_NoPasswordHashInResults ==
    /\ (req.op = "signup" /\ resp.status = 201) =>
          /\ DOMAIN resp.body = {"success", "message", "user"}
          /\ DOMAIN resp.body.user = PublicFields
          /\ \E u \in users : /\ u.username = req.username
                              /\ resp.body.user = [f \in PublicFields |-> u[f]]
    /\ (req.op = "signin" /\ resp.status = 200) =>
          /\ DOMAIN resp.body = {"success", "message", "session_id", "user"}
          /\ DOMAIN resp.body.user = PublicFields
          /\ \E u \in users : /\ u.username = req.username
                              /\ resp.body.user = [f \in PublicFields |-> u[f]]
    /\ (req.op = "me" /\ resp.body.authenticated) =>
          /\ DOMAIN resp.body = {"authenticated", "user"}
          /\ DOMAIN resp.body.user = PublicFields
          /\ \E u \in users : resp.body.user = [f \in PublicFields |-> u[f]]
    /\ \A session_id \in Cookies :
          get_current_user(session_id) # None =>
              /\ DOMAIN get_current_user(session_id)[1] = PublicFields \cup {"created_at"}
              /\ \E u \in users :
                    get_current_user(session_id)[1] =
                        [f \in PublicFields \cup {"created_at"} |-> u[f]]

\* /me has answered for a signed-in user who has an e-mail
C12_Witness ==
    /\ req.op = "me" /\ resp.body.authenticated
    /\ resp.body.user.email # None
    /\ get_current_user(req.session_id) # None
    /\ Cardinality(users) = 2

\* C13: signout(S) on an active S removes exactly S and reports success; on an
\* absent S it reports "Session not found" (no error) and changes nothing; a
\* second signout or delete_session of the same S leaves the session map as
\* the first one left it.
C13_SignoutIdempotent ==
    [][\A session_id \in Cookies \ {""} :
         ( /\ req'.op = "signout"
           /\ req'.session_id = session_id
           /\ PostSignout(session_id) ) =>
              /\ resp'.status = 200
              /\ IF session_id \in DOMAIN active_sessions
                 THEN /\ resp'.body = [success |-> TRUE, message |-> "Sign out successful"]
                      /\ DOMAIN active_sessions' = DOMAIN active_sessions \ {session_id}
                      /\ \A s \in DOMAIN active_sessions' :
                            active_sessions'[s] = active_sessions[s]
                 ELSE /\ resp'.body = [success |-> FALSE, message |-> "Session not found"]
                      /\ active_sessions' = active_sessions
              /\ signout(session_id)'.active_sessions = active_sessions'
              /\ signout(session_id)'.result =
                     [success |-> FALSE, message |-> "Session not found"]
              /\ delete_session(session_id)' = active_sessions']_vars

\* one of two active sessions was signed out
C13_Witness ==
    /\ req.op = "signout" /\ resp.status = 200 /\ resp.body.success
    /\ req.session_id \in issued \ DOMAIN active_sessions
    /\ DOMAIN active_sessions # {}

\* C14: the models of a user change only in a save-model or delete-model step
\* of a session of that user, also when another user has a model of the same
\* name; and every entry of list_models(B) is a model whose owner is B.
C14_ModelsScopedToOwner ==
    /\ [](\A u \in users :
            \A lst \in get_user_models(u.id) :
                \A i \in 1..Len(lst) :
                    /\ \E m \in models : m.user_id = u.id /\ ModelDict(m) = lst[i]
                    /\ \A m \in models : m.id = lst[i].id => m.user_id = u.id)
    /\ [][\A u \in users :
            {m \in models' : m.user_id = u.id} # {m \in models : m.user_id = u.id} =>
                /\ req'.op \in {"save_model", "delete_model"}
                /\ req'.session_id \in DOMAIN active_sessions
                /\ active_sessions[req'.session_id].user_id = u.id]_vars

\* a user deleted its model while the other user has a model of the same name
C14_Witness ==
    /\ req.op = "delete_model" /\ resp.status = 200
    /\ \E m \in models : /\ m.user_id # ReqUserId
                         /\ m.model_name = "m1"
                         /\ m.id # req.model_id
    /\ ModelsOf(ReqUserId) = {}
    /\ models_seq = 2

\* the model of that id that the session's user owns, if there is one
OwnedModel(session_id, model_id) ==
    {m \in models : m.id = model_id /\ m.user_id = active_sessions[session_id].user_id}

\* C15: delete_model for an authenticated user succeeds exactly when a model
\* of that id owned by the user exists, and then removes that model and no
\* other; otherwise it fails and the models table is unchanged.
C15_DeleteSucceedsIffOwned ==
    [][( /\ req'.op = "delete_model"
         /\ is_authenticated(req'.session_id)
         /\ DeleteModel(req'.session_id, req'.model_id) ) =>
            /\ (resp'.status = 200) <=> (OwnedModel(req'.session_id, req'.model_id) # {})
            /\ models' = models \ OwnedModel(req'.session_id, req'.model_id)]_vars

\* C16: list_models answers the user's models newest first: of two entries the
\* one saved later (it has the larger id, every save taking a fresh one) comes
\* before the other, whenever the saves were made.
C16_NewestFirst ==
    (req.op = "get_user_models" /\ resp.status = 200) =>
        \A i, j \in 1..Len(resp.body.models) :
            i < j => resp.body.models[i].id > resp.body.models[j].id

\* C17: a stored user record is in the users table, unchanged, after every
\* step, and in every state a signin with the username of a stored user and
\* the password whose hash it holds succeeds for that user.
C17_UsersImmutable ==
    /\ [][\A u \in users : u \in users']_vars
    /\ [](\A u \in users :
            \A password \in Passwords :
                hash_password(password) = u.password_hash =>
                    /\ authenticate_user(u.username, password) = Some(u.id)
                    /\ \A new_id \in Uuids :
                          LET r == signin(u.username, password, new_id)
                          IN  /\ r.resp.status = 200
                              /\ r.resp.body.user.id = u.id
                              /\ r.created)

\* a user signed in after its model was saved and a second signup under its
\* name was refused, while the database is still locked
C17_Witness ==
    /\ req.op = "signin" /\ resp.status = 200
    /\ models # {}
    /\ leaked
    /\ Cardinality(users) = 2

\* C18: every entry of the session map holds the id and the username of one
\* stored user, so get_current_user of an active session is never none, and
\* "Invalid session" is answered only to an identifier that is not active.
C18_SessionsReferToUsers ==
    /\ \A s \in DOMAIN active_sessions :
          /\ \E u \in users : /\ u.id = active_sessions[s].user_id
                              /\ u.username = active_sessions[s].username
          /\ get_current_user(s) # None
          /\ get_current_user(s)[1].id = active_sessions[s].user_id
    /\ (resp = InvalidSession) => ~is_authenticated(req.session_id)

\* a model was saved through one of two active sessions of different users
C18_Witness ==
    /\ req.op = "save_model" /\ resp.status = 200
    /\ is_authenticated(req.session_id)
    /\ \E s \in DOMAIN active_sessions :
          active_sessions[s].user_id # active_sessions[req.session_id].user_id

\* C19: the session map changes only in a signin or a signout step.  A signin
\* that succeeds adds one entry, for the user it authenticated, and leaves the
\* entries there were as they are, however many sessions that user already
\* has; a signin that fails, a signup (refused or not), /me and the model
\* handlers leave the map unchanged.
C19_SessionsChangeBySigninSignout ==
    [][/\ active_sessions' # active_sessions =>
             \/ req'.op = "signin" /\ PostSignin(req'.username, req'.password)
                                   /\ resp'.status = 200
             \/ req'.op = "signout" /\ PostSignout(req'.session_id)
       /\ ( /\ req'.op = "signin"
            /\ PostSignin(req'.username, req'.password)
            /\ resp'.status = 200 ) =>
               /\ resp'.body.session_id \notin DOMAIN active_sessions
               /\ DOMAIN active_sessions' =
                      DOMAIN active_sessions \cup {resp'.body.session_id}
               /\ \A s \in DOMAIN active_sessions : active_sessions'[s] = active_sessions[s]
               /\ Some(active_sessions'[resp'.body.session_id].user_id) =
                      authenticate_user(req'.username, req'.password)
               /\ active_sessions'[resp'.body.session_id].username = req'.username]_vars

\* a user signed in while an earlier session of the same user is active
C19_Witness ==
    /\ req.op = "signin" /\ resp.status = 200
    /\ \E s \in DOMAIN active_sessions :
          /\ s # resp.body.session_id
          /\ active_sessions[s].user_id = active_sessions[resp.body.session_id].user_id
    /\ Cardinality(users) = 2

\* a save-model step of an active session that succeeded
SavedStep ==
    /\ req'.op = "save_model"
    /\ is_authenticated(req'.session_id)
    /\ PostSaveModel(req'.session_id, req'.model_name, req'.model_data)
    /\ resp'.status = 200

\* the rows the save of the step overwrites
Overwritten == Replaced(active_sessions[req'.session_id].user_id, req'.model_name)

\* C20 as claimed: after an overwrite the id the model had still belongs to
\* the user's model of that name.
C20_OverwriteKeepsId ==
    [][SavedStep =>
          \A old \in Overwritten :
              \E m \in models' : /\ m.id = old.id
                                 /\ m.user_id = old.user_id
                                 /\ m.model_name = old.model_name]_vars

\* C20, amended: an overwrite gives the model a new id, larger than every id
\* given before; the id it had resolves to nothing afterwards (get_model and
\* delete_model find no model), and the user's one model of that name has the
\* new id.
C20_OverwriteGivesNewId ==
    /\ [](\A m \in models : m.id \in 1..models_seq)
    /\ [][SavedStep =>
            \A old \in Overwritten :
                /\ get_model_by_id(old.id, old.user_id)' = None
                /\ ~delete_model(old.id, old.user_id)'.result
                /\ \A m \in models' :
                      (m.user_id = old.user_id /\ m.model_name = old.model_name) =>
                          /\ m.id = models_seq + 1
                          /\ m.id > old.id
                /\ \E m \in models' : /\ m.user_id = old.user_id
                                      /\ m.model_name = old.model_name]_vars

\* the model saved first was overwritten and is now found under the second id
C20_Witness ==
    /\ req.op = "save_model" /\ resp.status = 200
    /\ ~leaked
    /\ get_model_by_id(1, ReqUserId) = None
    /\ get_model_by_id(2, ReqUserId) # None
    /\ \E lst \in get_user_models(ReqUserId) :
          Len(lst) = 1 /\ lst[1].id = 2 /\ lst[1].model_name = req.model_name

\* both threads have returned from the handler of op
BothDone(op) == DOMAIN threads = Threads /\ \A t \in Threads : At(t, op, "done")

\* C21: of two signups for one free username handled at the same time, in
\* every interleaving of their steps one answers 201 and the other 400, one
\* user of that name is stored afterwards, and the 201 carries the fields of
\* that record.
C21_OneSignupWins ==
    BothDone("signup") =>
        \E t, o \in Threads :
            /\ t # o
            /\ threads[t].resp.status = 201
            /\ threads[o].resp.status = 400
            /\ Cardinality({u \in users : u.username = threads[t].username}) = 1
            /\ \E u \in users : /\ u.username = threads[t].username
                                /\ u.password_hash = hash_password(threads[t].password)
                                /\ threads[t].resp.body.user = PublicUser(u)

\* C22: of two signouts of one active session handled on two threads, with the
\* membership tests and the deletion as separate steps, in every interleaving
\* one reports "Sign out successful" and the other "Session not found",
\* neither ends in an exception, and the session is gone.
C22_OneSignoutSucceeds ==
    BothDone("signout") =>
        /\ \A t \in Threads : threads[t].resp.status = 200
        /\ \E t, o \in Threads :
              /\ t # o
              /\ threads[t].resp.body.message = "Sign out successful"
              /\ threads[o].resp.body.message = "Session not found"
        /\ \A t \in Threads : threads[t].session_id \notin DOMAIN active_sessions

=============================================================================
